---------------------------- MODULE Spec2Model ----------------------------
(***************************************************************************)
(* A model of nutils/sample.py: the Sample class with its two index        *)
(* variants (_DefaultIndex, _CustomIndex), Sample.subset, and the          *)
(* evaluation pipeline (eval_integrals_sparse, eval_integrals,             *)
(* Sample.integrate, Sample.eval, _convert, _Integral.lower,               *)
(* _AtSample.lower).                                                       *)
(*                                                                         *)
(* Python sequences are 0-based and TLA+ sequences 1-based: element ielem  *)
(* of a Python tuple t is t[ielem+1] here.  Global point indices keep      *)
(* their Python values (0 .. npoints-1).                                   *)
(***************************************************************************)
EXTENDS Integers, Sequences, FiniteSets, TLC

VARIABLES
  sample,  \* the Sample at hand, or NoSample
  err,     \* the exception the last call raised, or "none"
  call,    \* the last call: its name and its arguments
  result,  \* what the last call returned, or NoResult
  cache    \* the cached properties of the Sample at hand

vars == <<sample, err, call, result, cache>>

(***************************************************************************)
(* Bounds of the model.                                                    *)
(***************************************************************************)
\* the largest total number of local points of a PointsSequence, and of
\* entries of an index tuple, that the inputs hold
MaxPoints == 3
\* the largest number of transform sequences (views) given to Sample.new
MaxViews == 2
\* the largest rank of a raw sparse result given to _convert
MaxRank == 3
\* the largest number of entries of a raw sparse result given to _convert
MaxEntries == 2
\* the largest total number of local points of the Samples that integrals
\* are evaluated over
MaxEvalPoints == 2
\* the largest number of integrals or functions of one joint evaluation
MaxBatch == 2

\* the index argument of Sample.new: None, or a tuple of integer arrays
None == [given |-> FALSE, arrays |-> <<>>]
IndexTuple(arrays) == [given |-> TRUE, arrays |-> arrays]
NoSample == [kind |-> "none"]
NoCall == [op |-> "none"]
NoResult == [kind |-> "none"]
NoCache == [filled |-> FALSE, value |-> <<>>]

(***************************************************************************)
(* Helpers on sequences of integers.                                       *)
(***************************************************************************)
RECURSIVE SumSeq(_)
SumSeq(s) == IF s = <<>> THEN 0 ELSE s[1] + SumSeq(Tail(s))

RECURSIVE Flatten(_)
Flatten(ss) == IF ss = <<>> THEN <<>> ELSE ss[1] \o Flatten(Tail(ss))

\* numpy.arange(a, b)
arange(a, b) == [j \in 1..(IF b > a THEN b - a ELSE 0) |-> a + j - 1]

\* numpy.cumsum(s)
cumsum(s) == [i \in 1..Len(s) |-> SumSeq(SubSeq(s, 1, i))]

Range(s) == {s[i] : i \in 1..Len(s)}

(***************************************************************************)
(* The PointsSequence collaborator (nutils/pointsseq.py, not in src/).     *)
(* The point set of one element is a record holding its local point count  *)
(* and its local coordinates; a PointsSequence is a sequence of them.       *)
(***************************************************************************)
Points(n) ==
  [npoints |-> n, coords |-> [j \in 1..n |-> j], weights |-> [j \in 1..n |-> j]]

\* PointsSequence.npoints: the total point count, derived from the points
PointsSequence_npoints(points) ==
  SumSeq([i \in 1..Len(points) |-> points[i].npoints])

\* PointsSequence.take(selection): the point sets of the selected elements,
\* in the order of the selection
PointsSequence_take(points, selection) ==
  [i \in 1..Len(selection) |-> points[selection[i] + 1]]

\* Transforms.__getitem__(selection): the transform chains of the selected
\* elements, in the order of the selection
Transforms_getitem(transform, selection) ==
  [i \in 1..Len(selection) |-> transform[selection[i] + 1]]

(***************************************************************************)
(* Outcomes of a call: a value, or a raised exception.                     *)
(***************************************************************************)
Return(v) == [raised |-> "none", value |-> v]
Raise(e) == [raised |-> e, value |-> NoSample]

(***************************************************************************)
(* class Sample                                                            *)
(***************************************************************************)
\* a Sample.__init__ without its second assertion
Sample__init__NoLengthCheck(kind, transforms, points, index) ==
  IF ~(Len(transforms) >= 1) THEN [raised |-> "AssertionError", value |-> [kind |-> "none"]]
  ELSE [raised |-> "none",
        value |-> [kind |-> kind, nelems |-> Len(transforms[1]),
                   transforms |-> transforms, points |-> points, index |-> index]]

\* Sample.__init__: the two assertions, then the fields
Sample__init__(kind, transforms, points, index) ==
  IF ~(Len(transforms) >= 1) THEN Raise("AssertionError")
  ELSE IF ~(\A k \in 1..Len(transforms) : Len(transforms[k]) = Len(points))
  THEN Raise("AssertionError")
  ELSE Return([kind |-> kind,
               nelems |-> Len(transforms[1]),
               transforms |-> transforms,
               points |-> points,
               index |-> index])

\* _DefaultIndex(transforms, points): it has no __init__ of its own
DefaultIndex__init__(transforms, points) ==
  Sample__init__("_DefaultIndex", transforms, points, <<>>)

\* a _CustomIndex.__init__ without its second check
CustomIndex__init__NoArrayCheck(transforms, points, index) ==
  IF Len(index) # Len(points) THEN Raise("ValueError")
  ELSE Sample__init__("_CustomIndex", transforms, points, index)

\* _CustomIndex.__init__: the two length checks, then Sample.__init__
CustomIndex__init__(transforms, points, index) ==
  IF Len(index) # Len(points) THEN Raise("ValueError")
  ELSE IF ~(\A i \in 1..Len(points) : Len(index[i]) = points[i].npoints)
  THEN Raise("ValueError")
  ELSE Sample__init__("_CustomIndex", transforms, points, index)

\* Sample.new
Sample_new(transforms, points, index) ==
  IF index = None THEN DefaultIndex__init__(transforms, points)
  ELSE CustomIndex__init__(transforms, points, index.arrays)

\* Sample.npoints
npoints(s) == PointsSequence_npoints(s.points)

\* offsets whose cumsum lost its leading 0
offsetsNoLeadingZero(s) ==
  cumsum([i \in 1..Len(s.points) + 1 |->
            IF i = Len(s.points) + 1 THEN 0 ELSE s.points[i].npoints])

\* _DefaultIndex.offsets
offsets(s) ==
  cumsum(<<0>> \o [i \in 1..Len(s.points) |-> s.points[i].npoints])

\* _DefaultIndex.getindex
DefaultIndex_getindex(s, ielem) ==
  arange(offsets(s)[ielem + 1], offsets(s)[ielem + 2])

\* _CustomIndex.getindex
CustomIndex_getindex(s, ielem) == s.index[ielem + 1]

\* Sample.getindex, dispatched on the variant
getindex(s, ielem) ==
  IF s.kind = "_DefaultIndex" THEN DefaultIndex_getindex(s, ielem)
  ELSE CustomIndex_getindex(s, ielem)

\* evaluable._SizesToOffsets: the offsets, from 0, of consecutive blocks of
\* the given sizes
SizesToOffsets(sizes) == cumsum(<<0>> \o sizes)

\* evaluable.Range(length, offset): offset, offset + 1, ... , length values
EvaluableRange(length, offset) == [j \in 1..length |-> offset + j - 1]

\* Sample.get_evaluable_indices(ielem), evaluated at a value of the loop
\* variable: ElemwiseFromCallable(self.getindex, ielem, ...)
Sample_get_evaluable_indices(s, ielem) == getindex(s, ielem)

\* a _DefaultIndex.get_evaluable_indices without the offset
DefaultIndex_get_evaluable_indicesNoOffset(s, ielem) ==
  EvaluableRange(s.points[ielem + 1].npoints, 0)

\* _DefaultIndex.get_evaluable_indices(ielem), evaluated at a value of the
\* loop variable: the sizes of all elements concatenated by a loop, their
\* offsets, and the range of the element's size from the element's offset
DefaultIndex_get_evaluable_indices(s, ielem) ==
  LET np == s.points[ielem + 1].npoints
      sizes == [i \in 1..s.nelems |-> s.points[i].npoints]
      offs == SizesToOffsets(sizes)
  IN EvaluableRange(np, offs[ielem + 1])

get_evaluable_indices(s, ielem) ==
  IF s.kind = "_DefaultIndex" THEN DefaultIndex_get_evaluable_indices(s, ielem)
  ELSE Sample_get_evaluable_indices(s, ielem)

\* Sample.index
index(s) == [i \in 1..s.nelems |-> getindex(s, i - 1)]

(***************************************************************************)
(* Sample.allcoords.  The array has one row per global index (row g is at  *)
(* g + 1 here); a row is the local coordinate of a point.  numpy.empty     *)
(* returns an uninitialised array, the argument empty; coords[idx] = values *)
(* raises IndexError for an index outside the array, and with a repeated   *)
(* index the last value stays (numpy).                                     *)
(***************************************************************************)
RECURSIVE AssignAt(_, _, _)
AssignAt(coords, idx, values) ==
  IF idx = <<>> THEN coords
  ELSE AssignAt([coords EXCEPT ![Head(idx) + 1] = Head(values)], Tail(idx), Tail(values))

RECURSIVE ScatterFrom(_, _, _)
ScatterFrom(s, coords, ielem) ==
  IF ielem >= Len(s.points) THEN [raised |-> "none", value |-> coords]
  ELSE IF \E j \in 1..Len(getindex(s, ielem)) :
            getindex(s, ielem)[j] \notin 0..Len(coords) - 1
       THEN [raised |-> "IndexError", value |-> <<>>]
       ELSE ScatterFrom(s, AssignAt(coords, getindex(s, ielem), s.points[ielem + 1].coords),
                        ielem + 1)

\* Sample.allcoords, computed
allcoords(s, empty) == ScatterFrom(s, empty, 0)

(***************************************************************************)
(* Sample.subset(mask).  mask is a boolean array of length npoints, a      *)
(* function on 0 .. npoints-1; mask[idx] with an index outside it raises   *)
(* IndexError (numpy).                                                     *)
(***************************************************************************)
MaskAny(mask, idx) == \E j \in 1..Len(idx) : mask[idx[j]]

RECURSIVE SelectFrom(_, _, _)
SelectFrom(s, mask, ielem) ==
  IF ielem >= s.nelems THEN <<>>
  ELSE (IF MaskAny(mask, getindex(s, ielem)) THEN <<ielem>> ELSE <<>>)
       \o SelectFrom(s, mask, ielem + 1)

\* the list comprehension of Sample.subset
selection(s, mask) == SelectFrom(s, mask, 0)

\* Sample.subset: mask[getindex(ielem)] for every element, then Sample.new
\* without an index
subset(s, mask) ==
  IF \E ielem \in 0..s.nelems - 1 :
       \E j \in 1..Len(getindex(s, ielem)) :
         getindex(s, ielem)[j] \notin DOMAIN mask
  THEN Raise("IndexError")
  ELSE Sample_new([k \in 1..Len(s.transforms) |->
                     Transforms_getitem(s.transforms[k], selection(s, mask))],
                  PointsSequence_take(s.points, selection(s, mask)),
                  None)

(***************************************************************************)
(* The sparse collaborator (nutils/sparse.py, nutils/matrix.py, not in     *)
(* src/).  A sparse object is a shape and a sequence of entries, each an   *)
(* index tuple and a value; unlisted positions are zero and entries with   *)
(* the same index add up.                                                  *)
(***************************************************************************)
Sparse(shape, entries) == [kind |-> "sparse", shape |-> shape, entries |-> entries]
Entry(idx, value) == [index |-> idx, value |-> value]

\* sparse.ndim
sparse_ndim(data) == Len(data.shape)

\* the positions of an array of the given shape
RECURSIVE Positions(_)
Positions(shape) ==
  IF shape = <<>> THEN {<<>>}
  ELSE {<<c>> \o rest : c \in 0..shape[1] - 1, rest \in Positions(Tail(shape))}

\* an accumulation that overwrites: array[index] = value, entry by entry
RECURSIVE AddAtOverwrite(_, _)
AddAtOverwrite(array, entries) ==
  IF entries = <<>> THEN array
  ELSE AddAtOverwrite([array EXCEPT ![entries[1].index] = entries[1].value], Tail(entries))

\* numpy.add.at: array[index] += value, entry by entry
RECURSIVE AddAt(_, _)
AddAt(array, entries) ==
  IF entries = <<>> THEN array
  ELSE AddAt([array EXCEPT ![entries[1].index] = @ + entries[1].value], Tail(entries))

\* sparse.toarray: a zero array of the shape, the entries added into it
sparse_toarray(data) ==
  [kind |-> "array", shape |-> data.shape,
   dense |-> AddAt([c \in Positions(data.shape) |-> 0], data.entries)]

\* the lexicographic order of index tuples of one length
RECURSIVE LexLess(_, _)
LexLess(a, b) ==
  /\ a # <<>>
  /\ \/ a[1] < b[1]
     \/ a[1] = b[1] /\ LexLess(Tail(a), Tail(b))

RECURSIVE SortIndices(_)
SortIndices(S) ==
  IF S = {} THEN <<>>
  ELSE LET m == CHOOSE x \in S : \A y \in S \ {x} : LexLess(x, y)
       IN <<m>> \o SortIndices(S \ {m})

RECURSIVE TotalAt(_, _)
TotalAt(entries, idx) ==
  IF entries = <<>> THEN 0
  ELSE (IF entries[1].index = idx THEN entries[1].value ELSE 0)
       + TotalAt(Tail(entries), idx)

\* sparse.dedup: the entries sorted by index, entries of one index summed
sparse_dedup(data) ==
  LET sorted == SortIndices({data.entries[i].index : i \in 1..Len(data.entries)})
  IN Sparse(data.shape,
            [i \in 1..Len(sorted) |-> Entry(sorted[i], TotalAt(data.entries, sorted[i]))])

RECURSIVE DropZeros(_)
DropZeros(entries) ==
  IF entries = <<>> THEN <<>>
  ELSE (IF entries[1].value = 0 THEN <<>> ELSE <<entries[1]>>) \o DropZeros(Tail(entries))

\* sparse.prune: the entries whose value is not zero
sparse_prune(data) == Sparse(data.shape, DropZeros(data.entries))

\* matrix.fromsparse: a Matrix built from the rank-2 entries, duplicate
\* (row, col) entries summed
matrix_fromsparse(data) ==
  [kind |-> "matrix", shape |-> data.shape,
   entries |-> sparse_prune(sparse_dedup(data)).entries]

\* Matrix.export('dense')
Matrix_export_dense(m) == AddAt([c \in Positions(m.shape) |-> 0], m.entries)

(***************************************************************************)
(* _convert(data, inplace): the object a raw sparse result becomes.  The   *)
(* inplace flag only lets dedup reuse the memory of data, which no caller  *)
(* reads again.                                                            *)
(***************************************************************************)
\* a _convert whose first branch also takes rank 2
ConvertDenseUpToRank2(data) ==
  LET ndim == sparse_ndim(data) IN
    IF ndim <= 2 THEN sparse_toarray(data)
    ELSE sparse_prune(sparse_dedup(data))

Convert(data) ==
  LET ndim == sparse_ndim(data) IN
    IF ndim < 2 THEN sparse_toarray(data)
    ELSE IF ndim = 2 THEN matrix_fromsparse(data)
    ELSE sparse_prune(sparse_dedup(data))

(***************************************************************************)
(* The expression layer (nutils/function.py, not in src/).  A function is  *)
(* a plain array function of some rank, or one of the two Sample-bound     *)
(* arrays of this module, _Integral and _AtSample.  The argument           *)
(* transform_chains (or coordinates) of lower is None or a tuple.          *)
(***************************************************************************)
NoneArg == [given |-> FALSE, items |-> <<>>]
TupleArg(items) == [given |-> TRUE, items |-> items]

\* Python's truth value of None or a tuple
Truthy(arg) == arg.given /\ Len(arg.items) > 0

\* function.Array: a plain array function with its shape and dtype
Array(shape, dtype) ==
  [kind |-> "func", rank |-> Len(shape), shape |-> shape, dtype |-> dtype]

\* the shape of the plain functions that are evaluated: every axis of size 2
FuncShape(rank) == [a \in 1..rank |-> 2]

\* a plain float function of a rank
Func(rank) == Array(FuncShape(rank), "float")

\* an _Integral that keeps the dtype of its integrand
Integral__init__KeepDtype(integrand, s) ==
  [kind |-> "_Integral", integrand |-> integrand, sample |-> s,
   shape |-> integrand.shape, dtype |-> integrand.dtype]

\* _Integral.__init__(integrand, sample)
Integral__init__(integrand, s) ==
  [kind |-> "_Integral", integrand |-> integrand, sample |-> s,
   shape |-> integrand.shape,
   dtype |-> IF integrand.dtype \in {"bool", "int"} THEN "float" ELSE integrand.dtype]

\* _AtSample.__init__(func, sample)
AtSample__init__(func, s) ==
  [kind |-> "_AtSample", func |-> func, sample |-> s,
   shape |-> <<PointsSequence_npoints(s.points)>> \o func.shape,
   dtype |-> func.dtype]

\* Sample.integral(func): _Integral(func, self)
Sample_integral(s, func) == Integral__init__(func, s)

\* Sample.__rmatmul__(func): _AtSample(func, self)
Sample__rmatmul__(s, func) == AtSample__init__(func, s)

\* Sample.basis(), ac the value of self.allcoords: for every point the unit
\* vector of its global index (function.Sampled on the coordinates
\* take(allcoords, I), inflated through I = self.index to length npoints)
Sample_basis(s, ac) ==
  [kind |-> "basis", sample |-> s, index |-> index(s), expect |-> ac,
   length |-> npoints(s)]

\* Sample.asfunction(array): function.matmat(self.basis(), array)
Sample_asfunction(s, array, ac) ==
  [kind |-> "matmat", rank |-> Len(array.shape) - 1, shape |-> Tail(array.shape),
   dtype |-> "float", basis |-> Sample_basis(s, ac), array |-> array]

\* the expressions that are not bound to a Sample
PlainKinds == {"func", "matmat"}

\* the outcome of a lower call: the evaluable, or the exception, and the
\* lower calls made on inner expressions, in order
Lowered(ev, calls) == [raised |-> "none", value |-> ev, calls |-> calls]
LowerRaised(e, calls) == [raised |-> e, value |-> [node |-> "none"], calls |-> calls]
LowerCallOf(expr, tc, co) ==
  [kind |-> expr.kind, nchains |-> Len(tc.items), ncoords |-> Len(co.items)]

\* evaluable.TransformChainFromSequence(t, ielem), for every view t
TransformChains(s) ==
  [k \in 1..Len(s.transforms) |-> [node |-> "TransformChainFromSequence",
                                    sequence |-> s.transforms[k], index |-> "_ielem"]]

\* (points.get_evaluable_coords(ielem),) * len(transforms)
Coordinates(s) ==
  [k \in 1..Len(s.transforms) |-> [node |-> "coords", points |-> s.points,
                                    index |-> "_ielem"]]

\* function.Array.lower of a plain function: an evaluable of the chains and
\* coordinates it is given
Func_lower(func, tc, co) ==
  Lowered([node |-> func.kind, rank |-> func.rank, chains |-> tc.items,
           coords |-> co.items, expr |-> func], <<>>)

\* a lower that binds the chain and the coordinates of the first view only
LowerFirstViewOnly(expr, tc, co) ==
  IF expr.kind = "func" THEN Func_lower(expr, tc, co)
  ELSE IF Truthy(tc) \/ Truthy(co) THEN LowerRaised("ValueError", <<>>)
  ELSE LET s == expr.sample
           inner == IF expr.kind = "_Integral" THEN expr.integrand ELSE expr.func
           chains == TupleArg(SubSeq(TransformChains(s), 1, 1))
           coords == TupleArg(SubSeq(Coordinates(s), 1, 1))
           calls == <<LowerCallOf(inner, chains, coords)>>
       IN IF inner.kind # "func" THEN LowerRaised("ValueError", calls)
          ELSE Lowered([node |-> "LoopSum", of |-> expr.kind,
                        body |-> Func_lower(inner, chains, coords).value,
                        sample |-> s, index |-> "_ielem", length |-> s.nelems],
                       calls)

\* a lower whose loop stops before the last element
LowerSkipLast(expr, tc, co) ==
  IF expr.kind \in PlainKinds THEN Func_lower(expr, tc, co)
  ELSE IF Truthy(tc) \/ Truthy(co) THEN LowerRaised("ValueError", <<>>)
  ELSE LET s == expr.sample
           inner == IF expr.kind = "_Integral" THEN expr.integrand ELSE expr.func
           chains == TupleArg(TransformChains(s))
           coords == TupleArg(Coordinates(s))
           calls == <<LowerCallOf(inner, chains, coords)>>
       IN IF inner.kind \notin PlainKinds THEN LowerRaised("ValueError", calls)
          ELSE Lowered([node |-> "LoopSum", of |-> expr.kind,
                        body |-> Func_lower(inner, chains, coords).value,
                        sample |-> s, index |-> "_ielem",
                        length |-> IF s.nelems > 0 THEN s.nelems - 1 ELSE 0],
                       calls)

\* _Integral.lower and _AtSample.lower (and the lower of a plain function):
\* the check of the context, the binding of one chain and one coordinates
\* entry per view, the lower of the inner expression under them, the LoopSum
RECURSIVE Lower(_, _, _)
Lower(expr, tc, co) ==
  IF expr.kind \in PlainKinds THEN Func_lower(expr, tc, co)
  ELSE IF Truthy(tc) \/ Truthy(co) THEN LowerRaised("ValueError", <<>>)
  ELSE LET s == expr.sample
           inner == IF expr.kind = "_Integral" THEN expr.integrand ELSE expr.func
           chains == TupleArg(TransformChains(s))
           coords == TupleArg(Coordinates(s))
           low == Lower(inner, chains, coords)
           calls == <<LowerCallOf(inner, chains, coords)>> \o low.calls
       IN IF low.raised # "none" THEN LowerRaised(low.raised, calls)
          ELSE Lowered([node |-> "LoopSum", of |-> expr.kind, body |-> low.value,
                        sample |-> s, index |-> "_ielem", length |-> s.nelems],
                       calls)

\* function.Array.as_evaluable_array: the lower of an expression outside any
\* lowering context
as_evaluable_array(expr) == Lower(expr, NoneArg, NoneArg)

(***************************************************************************)
(* The execution engine (nutils/evaluable.py, not in src/): the raw sparse *)
(* result of a LoopSum is the per-element contributions, element after     *)
(* element.  A plain function of rank r has, on the element with transform *)
(* chain t, one component, at position (t % 2, ..., t % 2), whose value at  *)
(* a point is the point's local coordinate.                                 *)
(***************************************************************************)
Component(rank, t) == [a \in 1..rank |-> t % 2]

\* the components that the lowered function body has on the element with
\* transform chain t
BodyComponents(body, t) ==
  IF body.node = "func" THEN <<Component(body.rank, t)>>
  ELSE SortIndices(Positions(body.expr.shape))

\* the value of component c of body at point j of element ielem of s: the
\* local coordinate for a plain function; for matmat(basis, array) the row
\* of array at the global index of the point
BodyValue(body, s, ielem, j, c) ==
  IF body.node = "func" THEN s.points[ielem + 1].coords[j]
  ELSE body.expr.array.dense[<<body.expr.basis.index[ielem + 1][j]>> \o c]

\* the contribution of element ielem to an integral: the weights
\* contracted with the integrand at the element's points
IntegralContribution(ev, ielem) ==
  LET s == ev.sample
      P == s.points[ielem + 1]
      comps == BodyComponents(ev.body, s.transforms[1][ielem + 1])
  IN [k \in 1..Len(comps) |->
        Entry(comps[k],
              SumSeq([j \in 1..P.npoints |->
                        P.weights[j] * BodyValue(ev.body, s, ielem, j, comps[k])]))]

\* the contribution of element ielem to an _AtSample: the function at the
\* element's points, inflated to the global indices of the points
AtSampleContribution(ev, ielem) ==
  LET s == ev.sample
      P == s.points[ielem + 1]
      comps == BodyComponents(ev.body, s.transforms[1][ielem + 1])
  IN Flatten([j \in 1..P.npoints |->
                [k \in 1..Len(comps) |->
                   Entry(<<get_evaluable_indices(s, ielem)[j]>> \o comps[k],
                         BodyValue(ev.body, s, ielem, j, comps[k]))]])

Contribution(ev, ielem) ==
  IF ielem >= ev.length THEN <<>>
  ELSE IF ev.of = "_Integral" THEN IntegralContribution(ev, ielem)
  ELSE AtSampleContribution(ev, ielem)

RawShape(ev) ==
  IF ev.of = "_Integral" THEN ev.body.expr.shape
  ELSE <<npoints(ev.sample)>> \o ev.body.expr.shape

\* one pass over the elements, every result of the tuple taking the
\* contribution of the element at hand
RECURSIVE JointLoop(_, _, _, _)
JointLoop(evs, ielem, length, accs) ==
  IF ielem >= length THEN accs
  ELSE JointLoop(evs, ielem + 1, length,
                 [j \in 1..Len(evs) |-> accs[j] \o Contribution(evs[j], ielem)])

MaxOf(S) == IF S = {} THEN 0 ELSE CHOOSE m \in S : \A x \in S : x <= m

\* Inflate: an index outside 0 .. length-1 is an IndexError
InflateFails(ev) ==
  /\ ev.of = "_AtSample"
  /\ \E ielem \in 0..ev.length - 1 :
       \E j \in 1..Len(get_evaluable_indices(ev.sample, ielem)) :
         get_evaluable_indices(ev.sample, ielem)[j] \notin 0..npoints(ev.sample) - 1

\* a basis whose index has a value outside 0 .. length-1: IndexError
BasisIndexFails(ev) ==
  /\ ev.body.node = "matmat"
  /\ \E ielem \in 0..ev.length - 1 :
       \E j \in 1..Len(ev.body.expr.basis.index[ielem + 1]) :
         ev.body.expr.basis.index[ielem + 1][j] \notin 0..ev.body.expr.basis.length - 1

\* function.Sampled: the coordinates of the points of an element are not
\* the expected ones, take(allcoords, I): AssertionError
SampledFails(ev) ==
  /\ ev.body.node = "matmat"
  /\ \E ielem \in 0..ev.length - 1 :
       \E j \in 1..ev.sample.points[ielem + 1].npoints :
         ev.body.expr.basis.expect[ev.body.expr.basis.index[ielem + 1][j] + 1]
           # ev.sample.points[ielem + 1].coords[j]

\* evaluable.Tuple(evs).optimized_for_numpy ... eval(**arguments): the
\* tuple of the raw sparse results
Execute(evs) ==
  IF \E j \in 1..Len(evs) : InflateFails(evs[j]) \/ BasisIndexFails(evs[j])
  THEN [raised |-> "IndexError", value |-> <<>>]
  ELSE IF \E j \in 1..Len(evs) : SampledFails(evs[j])
  THEN [raised |-> "AssertionError", value |-> <<>>]
  ELSE LET accs == JointLoop(evs, 0, MaxOf({evs[j].length : j \in 1..Len(evs)}),
                             [j \in 1..Len(evs) |-> <<>>])
       IN [raised |-> "none",
           value |-> [j \in 1..Len(evs) |-> Sparse(RawShape(evs[j]), accs[j])]]

(***************************************************************************)
(* The evaluation pipeline.                                                *)
(***************************************************************************)
\* the first exception of a sequence of outcomes, "none" without one
RECURSIVE FirstRaised(_)
FirstRaised(outcomes) ==
  IF outcomes = <<>> THEN "none"
  ELSE IF outcomes[1].raised # "none" THEN outcomes[1].raised
  ELSE FirstRaised(Tail(outcomes))

Reverse(seq) == [i \in 1..Len(seq) |-> seq[Len(seq) + 1 - i]]

\* an eval_integrals_sparse that builds its tuple back to front
eval_integrals_sparseReversed(integrals) ==
  LET lowered == [j \in 1..Len(integrals) |-> as_evaluable_array(integrals[j])] IN
    IF FirstRaised(lowered) # "none"
    THEN [raised |-> FirstRaised(lowered), value |-> <<>>]
    ELSE Execute(Reverse([j \in 1..Len(integrals) |-> lowered[j].value]))

\* the members of seq that are in keep, in order
RECURSIVE SelectSeqBy(_, _)
SelectSeqBy(seq, keep) ==
  IF seq = <<>> THEN <<>>
  ELSE (IF Head(seq) \in keep THEN <<Head(seq)>> ELSE <<>>) \o SelectSeqBy(Tail(seq), keep)

\* an eval_integrals_sparse that leaves out the integrals whose lower raises
eval_integrals_sparseSkipFailed(integrals) ==
  LET lowered == [j \in 1..Len(integrals) |-> as_evaluable_array(integrals[j])]
      good == SelectSeqBy(lowered, {lowered[j] : j \in {i \in 1..Len(lowered) :
                                                          lowered[i].raised = "none"}})
  IN Execute([j \in 1..Len(good) |-> good[j].value])

\* eval_integrals_sparse(*integrals): the integrals lowered in order, the
\* tuple of them executed once
eval_integrals_sparse(integrals) ==
  LET lowered == [j \in 1..Len(integrals) |-> as_evaluable_array(integrals[j])] IN
    IF FirstRaised(lowered) # "none"
    THEN [raised |-> FirstRaised(lowered), value |-> <<>>]
    ELSE Execute([j \in 1..Len(integrals) |-> lowered[j].value])

\* eval_integrals(*integrals): every raw result through _convert, in order
eval_integrals(integrals) ==
  LET retvals == eval_integrals_sparse(integrals) IN
    IF retvals.raised # "none" THEN retvals
    ELSE [raised |-> "none",
          value |-> [j \in 1..Len(retvals.value) |-> Convert(retvals.value[j])]]

\* Sample.integrate_sparse(funcs)
Sample_integrate_sparse(s, funcs) ==
  eval_integrals_sparse([j \in 1..Len(funcs) |-> Sample_integral(s, funcs[j])])

\* Sample.integrate(funcs): every raw result through _convert, in order
Sample_integrate(s, funcs) ==
  LET datas == Sample_integrate_sparse(s, funcs) IN
    IF datas.raised # "none" THEN datas
    ELSE [raised |-> "none",
          value |-> [j \in 1..Len(datas.value) |-> Convert(datas.value[j])]]

\* Sample.eval_sparse(funcs)
Sample_eval_sparse(s, funcs) ==
  eval_integrals_sparse([j \in 1..Len(funcs) |-> Sample__rmatmul__(s, funcs[j])])

\* a Sample.eval that converts as Sample.integrate does
Sample_evalThroughConvert(s, funcs) ==
  LET datas == Sample_eval_sparse(s, funcs) IN
    IF datas.raised # "none" THEN datas
    ELSE [raised |-> "none",
          value |-> [j \in 1..Len(datas.value) |-> Convert(datas.value[j])]]

\* Sample.eval(funcs): every raw result through sparse.toarray, in order
Sample_eval(s, funcs) ==
  LET datas == Sample_eval_sparse(s, funcs) IN
    IF datas.raised # "none" THEN datas
    ELSE [raised |-> "none",
          value |-> [j \in 1..Len(datas.value) |-> sparse_toarray(datas.value[j])]]

(***************************************************************************)
(* The inputs of Sample.new.                                               *)
(***************************************************************************)
\* the sequences of positive integers that sum to at most budget
RECURSIVE Compositions(_)
Compositions(budget) ==
  {<<>>} \cup UNION {{<<n>> \o rest : rest \in Compositions(budget - n)}
                      : n \in 1..budget}

\* the PointsSequences with at most budget local points in all
PointsSequences(budget) ==
  {[i \in 1..Len(c) |-> Points(c[i])] : c \in Compositions(budget)}

PointsInputs == PointsSequences(MaxPoints)

\* the transform sequence of a view over n elements: element e has chain e
View(n) == [e \in 1..n |-> e]

\* at most MaxViews views, each as long as points or one longer
RECURSIVE ViewTuples(_, _)
ViewTuples(nviews, n) ==
  IF nviews = 0 THEN {<<>>}
  ELSE {<<View(l)>> \o rest : l \in {n, n + 1}, rest \in ViewTuples(nviews - 1, n)}

TransformsInputs(n) == UNION {ViewTuples(v, n) : v \in 0..MaxViews}

\* the index tuples shaped like points (one array per element, as long as
\* the element's point count), with values 0 .. npoints: npoints itself is
\* one past the last global index
RECURSIVE ShapedIndexTuples(_, _)
ShapedIndexTuples(points, top) ==
  IF points = <<>> THEN {<<>>}
  ELSE {<<a>> \o rest : a \in [1..points[1].npoints -> 0..top],
                        rest \in ShapedIndexTuples(Tail(points), top)}

\* the index tuples of every shape with at most MaxPoints entries in all,
\* filled with 0: the shapes that do not fit points
ZeroIndexTuples ==
  {[i \in 1..Len(c) |-> [j \in 1..c[i] |-> 0]] : c \in Compositions(MaxPoints)}

IndexInputs(points) ==
  {None} \cup {IndexTuple(t) :
                 t \in ShapedIndexTuples(points, PointsSequence_npoints(points))
                        \cup ZeroIndexTuples}

Masks(n) == [0..n - 1 -> BOOLEAN]


(***************************************************************************)
(* The state machine of the Sample: no Sample, then one constructed by     *)
(* Sample.new, then subsets of it.                                         *)
(***************************************************************************)
Init ==
  /\ sample = NoSample
  /\ err = "none"
  /\ call = NoCall
  /\ result = NoResult
  /\ cache = NoCache

\* Sample.new(transforms, points, index)
New ==
  /\ sample.kind = "none"
  /\ call.op = "none"
  /\ \E points \in PointsInputs :
       \E idx \in IndexInputs(points), transforms \in TransformsInputs(Len(points)) :
         LET r == Sample_new(transforms, points, idx) IN
           /\ sample' = r.value
           /\ err' = r.raised
           /\ call' = [op |-> "new", transforms |-> transforms,
                       points |-> points, index |-> idx]
  /\ cache' = NoCache
  /\ UNCHANGED result

\* sample.subset(mask) on the Sample that Sample.new returned; the subset is
\* the Sample from here on.  (A subset is a default-index Sample, and New
\* constructs every default-index Sample: subsets of subsets add no case.)
Subset ==
  /\ sample.kind # "none"
  /\ call.op = "new"
  /\ \E mask \in Masks(npoints(sample)) :
       LET r == subset(sample, mask) IN
         /\ sample' = (IF r.raised = "none" THEN r.value ELSE sample)
         /\ err' = r.raised
         /\ call' = [op |-> "subset", parent |-> sample, mask |-> mask]
  /\ cache' = NoCache
  /\ UNCHANGED result

\* the Sample and the last call's record are dropped
Discard ==
  /\ call.op # "none"
  /\ sample' = NoSample
  /\ err' = "none"
  /\ call' = NoCall
  /\ result' = NoResult
  /\ cache' = NoCache

Next == New \/ Subset \/ Discard

Spec == Init /\ [][Next]_vars

(***************************************************************************)
(* _convert on its own: a raw sparse result is drawn and converted.        *)
(***************************************************************************)
\* the size of every axis of the raw sparse inputs
AxisSizes == {2}
\* the values of the raw sparse inputs: 2 + 5 is the spec's example of a
\* duplicate, 2 + (-2) a duplicate that sums to zero, 0 an explicit zero
EntryValues == {-2, 0, 2, 5}

Shapes(rank) == [1..rank -> AxisSizes]

\* the raw sparse results of one shape with n entries
SparseInputs(shape, n) ==
  {Sparse(shape, entries) :
     entries \in [1..n -> {Entry(c, v) : c \in Positions(shape), v \in EntryValues}]}

\* _convert(data)
ConvertCall ==
  /\ call.op = "none"
  /\ \E rank \in 0..MaxRank, n \in 0..MaxEntries :
       \E shape \in Shapes(rank) :
         \E data \in SparseInputs(shape, n) :
           /\ call' = [op |-> "_convert", data |-> data]
           /\ result' = Convert(data)
  /\ UNCHANGED <<sample, err, cache>>

NextConvert == ConvertCall \/ Discard

SpecConvert == Init /\ [][NextConvert]_vars

(***************************************************************************)
(* Lowering on its own: lower is called on an expression, inside or        *)
(* outside a lowering context.                                             *)
(***************************************************************************)
\* the ranks of the functions that are integrated and of those that are
\* evaluated: the raw result of an integral has the rank of its integrand,
\* that of an _AtSample one axis more, and _convert tells the raw ranks
\* below 2, rank 2 and the ranks above 2 apart
IntegrateRanks == {0, 2, 3}
EvalRanks == {0, 1, 2}

\* v views over the elements of points
MatchingViews(v, points) == [k \in 1..v |-> View(Len(points))]

\* the Samples that expressions are bound to: default index, 1 .. MaxViews
\* views
LowerSamples ==
  {Sample_new(MatchingViews(v, points), points, None).value :
     v \in 1..MaxViews, points \in PointsSequences(MaxEvalPoints)}

SampleBound(s, inners) ==
  {Sample_integral(s, f) : f \in inners} \cup {Sample__rmatmul__(s, f) : f \in inners}

\* plain functions, Sample-bound arrays of them, and Sample-bound arrays of
\* Sample-bound arrays
LowerExprs(s) ==
  LET funcs == {Func(r) : r \in EvalRanks}
  IN funcs \cup SampleBound(s, funcs) \cup SampleBound(s, SampleBound(s, funcs))

\* None, or the first k chains (coordinates) of an outer context
ChainArgs(s) ==
  {NoneArg} \cup {TupleArg(SubSeq(TransformChains(s), 1, k)) : k \in 0..Len(s.transforms)}
CoordArgs(s) ==
  {NoneArg} \cup {TupleArg(SubSeq(Coordinates(s), 1, k)) : k \in 0..Len(s.transforms)}

InitLower ==
  /\ sample \in LowerSamples
  /\ err = "none"
  /\ call = NoCall
  /\ result = NoResult
  /\ cache = NoCache

\* expr.lower(transform_chains=tc, coordinates=co)
LowerCall ==
  /\ call.op = "none"
  /\ \E expr \in LowerExprs(sample), tc \in ChainArgs(sample), co \in CoordArgs(sample) :
       LET r == Lower(expr, tc, co) IN
         /\ call' = [op |-> "lower", expr |-> expr, transform_chains |-> tc,
                     coordinates |-> co]
         /\ err' = r.raised
         /\ result' = [kind |-> "lowered", value |-> r.value, calls |-> r.calls]
  /\ UNCHANGED <<sample, cache>>

\* the call has returned or raised; the Sample stays
Done ==
  /\ call.op # "none"
  /\ call' = NoCall
  /\ err' = "none"
  /\ result' = NoResult
  /\ UNCHANGED <<sample, cache>>

NextLower == LowerCall \/ Done

SpecLower == InitLower /\ [][NextLower]_vars

(***************************************************************************)
(* The deferred arrays on their own: Sample.integral and                   *)
(* Sample.__rmatmul__ are called on a function of some shape and dtype.     *)
(***************************************************************************)
DTypes == {"bool", "int", "float", "complex"}
ArraySizes == {1, 2}
ArrayRanks == {0, 1, 2}

\* the plain functions, of every shape and dtype
Arrays ==
  UNION {{Array(shape, dtype) : shape \in [1..rank -> ArraySizes], dtype \in DTypes}
         : rank \in ArrayRanks}

\* the plain functions and the _AtSample arrays of them
Integrands(s) == Arrays \cup {AtSample__init__(f, s) : f \in Arrays}

\* sample.integral(func)
IntegralCall ==
  /\ call.op = "none"
  /\ \E func \in Integrands(sample) :
       /\ call' = [op |-> "integral", func |-> func]
       /\ result' = [kind |-> "array", value |-> Sample_integral(sample, func)]
  /\ UNCHANGED <<sample, err, cache>>

\* func @ sample
RmatmulCall ==
  /\ call.op = "none"
  /\ \E func \in Arrays :
       /\ call' = [op |-> "__rmatmul__", func |-> func]
       /\ result' = [kind |-> "array", value |-> Sample__rmatmul__(sample, func)]
  /\ UNCHANGED <<sample, err, cache>>

NextArray == IntegralCall \/ RmatmulCall \/ Done

SpecArray == InitLower /\ [][NextArray]_vars

(***************************************************************************)
(* The evaluation pipeline over one Sample: Sample.integrate, Sample.eval  *)
(* and eval_integrals are called with a batch of functions or integrals.   *)
(***************************************************************************)
\* the index tuples of the shape of points whose values are global indices,
\* overlapping ones included, and the one whose values are all npoints, one
\* past the last global index
EvalIndexTuples(points) ==
  ShapedIndexTuples(points, PointsSequence_npoints(points) - 1)
    \cup {[i \in 1..Len(points) |->
            [j \in 1..points[i].npoints |-> PointsSequence_npoints(points)]]}

\* the Samples that are evaluated over: one view, default or custom index
EvalSamples ==
  {r.value : r \in
     {x \in UNION {{Sample_new(MatchingViews(1, points), points, idx) :
                      idx \in {None} \cup {IndexTuple(t) : t \in EvalIndexTuples(points)}}
                    : points \in PointsSequences(MaxEvalPoints)}
        : x.raised = "none"}}

\* the sequences of 1 .. MaxBatch members of S
Batches(S) == UNION {[1..k -> S] : k \in 1..MaxBatch}

IntegrateFuncs == {Func(r) : r \in IntegrateRanks}
EvalFuncs == {Func(r) : r \in EvalRanks}
\* the deferred arrays over s, one of them an integral of an _AtSample,
\* whose lower raises
Integrals(s) ==
  {Sample_integral(s, f) : f \in IntegrateFuncs}
    \cup {Sample__rmatmul__(s, f) : f \in EvalFuncs}
    \cup {Sample_integral(s, Sample__rmatmul__(s, Func(0)))}

Results(r) ==
  IF r.raised = "none" THEN [kind |-> "results", values |-> r.value] ELSE NoResult

InitEval ==
  /\ sample \in EvalSamples
  /\ err = "none"
  /\ call = NoCall
  /\ result = NoResult
  /\ cache = NoCache

\* sample.integrate(funcs)
IntegrateCall ==
  /\ call.op = "none"
  /\ \E funcs \in Batches(IntegrateFuncs) :
       LET r == Sample_integrate(sample, funcs) IN
         /\ call' = [op |-> "integrate", funcs |-> funcs]
         /\ err' = r.raised
         /\ result' = Results(r)
  /\ UNCHANGED <<sample, cache>>

\* sample.eval(funcs)
EvalCall ==
  /\ call.op = "none"
  /\ \E funcs \in Batches(EvalFuncs) :
       LET r == Sample_eval(sample, funcs) IN
         /\ call' = [op |-> "eval", funcs |-> funcs]
         /\ err' = r.raised
         /\ result' = Results(r)
  /\ UNCHANGED <<sample, cache>>

\* eval_integrals(*integrals), the integrals over the Sample at hand
EvalIntegralsCall ==
  /\ call.op = "none"
  /\ \E integrals \in Batches(Integrals(sample)) :
       LET r == eval_integrals(integrals) IN
         /\ call' = [op |-> "eval_integrals", funcs |-> integrals]
         /\ err' = r.raised
         /\ result' = Results(r)
  /\ UNCHANGED <<sample, cache>>

NextEval == IntegrateCall \/ EvalCall \/ EvalIntegralsCall \/ Done

SpecEval == InitEval /\ [][NextEval]_vars

(***************************************************************************)
(* Sampled data: allcoords is read, and the result of Sample.eval is       *)
(* turned into a function by asfunction and integrated over the Sample.    *)
(* A cached property (types.Singleton.__cache__, not in src/) is computed  *)
(* at its first read and kept with the Sample.                             *)
(***************************************************************************)
\* what an uninitialised row may hold: a value that is no coordinate, or one
\* that is
EmptyValues == {-1, 1}

\* the outcomes of reading s.allcoords with cache c
AllcoordsReads(s, c) ==
  IF c.filled THEN {[raised |-> "none", value |-> c.value]}
  ELSE {allcoords(s, empty) : empty \in [1..npoints(s) -> EmptyValues]}

CacheAfter(c, r) ==
  IF r.raised = "none" THEN [filled |-> TRUE, value |-> r.value] ELSE c

\* sample.allcoords
AllcoordsCall ==
  /\ call.op = "none"
  /\ \E r \in AllcoordsReads(sample, cache) :
       /\ call' = [op |-> "allcoords"]
       /\ err' = r.raised
       /\ result' = (IF r.raised = "none" THEN [kind |-> "coords", value |-> r.value]
                     ELSE NoResult)
       /\ cache' = CacheAfter(cache, r)
  /\ UNCHANGED sample

\* sample.asfunction(data), data the array that sample.eval(func) returned
AsfunctionCall ==
  /\ call.op = "eval" /\ err = "none" /\ Len(call.funcs) = 1
  /\ \E r \in AllcoordsReads(sample, cache) :
       /\ call' = [op |-> "asfunction", array |-> result.values[1]]
       /\ err' = r.raised
       /\ result' = (IF r.raised = "none"
                     THEN [kind |-> "function",
                           value |-> Sample_asfunction(sample, result.values[1], r.value)]
                     ELSE NoResult)
       /\ cache' = CacheAfter(cache, r)
  /\ UNCHANGED sample

\* sample.integrate(f), f the function that asfunction returned
IntegrateSampledCall ==
  /\ call.op = "asfunction" /\ err = "none"
  /\ LET r == Sample_integrate(sample, <<result.value>>) IN
       /\ call' = [op |-> "integrate", funcs |-> <<result.value>>]
       /\ err' = r.raised
       /\ result' = Results(r)
  /\ UNCHANGED <<sample, cache>>

NextSampled ==
  EvalCall \/ AsfunctionCall \/ IntegrateSampledCall \/ AllcoordsCall \/ Done

SpecSampled == InitEval /\ [][NextSampled]_vars

(***************************************************************************)
(* The summing loop, step by step: the engine may take the contributions   *)
(* of the elements in any order, and interleave their entries.  The loop   *)
(* holds the entries still to be added; a step adds one of them into the   *)
(* shared output.                                                          *)
(***************************************************************************)
\* the entries of the loop: element and number within its contribution
LoopEntries(ev) ==
  UNION {{<<e, k>> : k \in 1..Len(Contribution(ev, e))} : e \in 0..ev.length - 1}

\* the loop of one deferred array over the Sample at hand starts
LoopStart ==
  /\ call.op = "none"
  /\ \E integral \in Integrals(sample) :
       LET low == as_evaluable_array(integral) IN
         /\ low.raised = "none"
         /\ Execute(<<low.value>>).raised = "none"
         /\ call' = [op |-> "LoopSum", ev |-> low.value,
                     pending |-> LoopEntries(low.value), order |-> <<>>]
         /\ result' = [kind |-> "array", shape |-> RawShape(low.value),
                       dense |-> [c \in Positions(RawShape(low.value)) |-> 0]]
  /\ UNCHANGED <<sample, err, cache>>

\* one pending entry, of any element, is added into the output
LoopStep ==
  /\ call.op = "LoopSum"
  /\ \E p \in call.pending :
       /\ result' = [result EXCEPT
                       !.dense = AddAt(@, <<Contribution(call.ev, p[1])[p[2]]>>)]
       /\ call' = [call EXCEPT !.pending = @ \ {p}, !.order = Append(@, p)]
  /\ UNCHANGED <<sample, err, cache>>

NextLoop == LoopStart \/ LoopStep \/ Done

SpecLoop == InitEval /\ [][NextLoop]_vars

(***************************************************************************)
(* Properties of the Sample.                                               *)
(***************************************************************************)
IsSample == sample.kind # "none"
Elems == 0..sample.nelems - 1

\* the offset of element i of the Sample: offset_0 = 0,
\* offset_{i+1} = offset_i + points[i].npoints
RECURSIVE OffsetOf(_)
OffsetOf(i) == IF i = 0 THEN 0 ELSE OffsetOf(i - 1) + sample.points[i].npoints

\* C1: the getindex arrays of a default-index Sample are the contiguous
\* increasing ranges [offset_i, offset_i + points[i].npoints), offset_0 = 0
\* and offset_{i+1} = offset_i + points[i].npoints; put end to end in element
\* order they are 0, 1, ..., npoints-1, without gap or overlap, and the local
\* point counts sum to npoints.
C1_DefaultIndexPartition ==
  (IsSample /\ sample.kind = "_DefaultIndex") =>
    /\ \A i \in Elems :
         getindex(sample, i) =
           [j \in 1..sample.points[i + 1].npoints |-> OffsetOf(i) + j - 1]
    /\ Flatten([i \in 1..sample.nelems |-> getindex(sample, i - 1)])
         = [g \in 1..npoints(sample) |-> g - 1]
    /\ \A i, k \in Elems :
         i # k => Range(getindex(sample, i)) \cap Range(getindex(sample, k)) = {}
    /\ OffsetOf(sample.nelems) = npoints(sample)

\* a default-index Sample of several elements, one of them with several points
C1_Witness ==
  /\ IsSample /\ sample.kind = "_DefaultIndex"
  /\ sample.nelems >= 2
  /\ \E i \in Elems : Len(getindex(sample, i)) >= 2

\* C2 (as claimed): every global index that getindex returns, for either
\* variant, is non-negative and strictly less than npoints.
C2_IndicesBelowNpoints ==
  IsSample =>
    \A i \in Elems : \A j \in 1..Len(getindex(sample, i)) :
      /\ 0 <= getindex(sample, i)[j]
      /\ getindex(sample, i)[j] < npoints(sample)

\* whether the last call was Sample.new with an explicit index
NewWithIndex == call.op = "new" /\ call.index.given

IndexTupleLengthMatches == Len(call.index.arrays) = Len(call.points)
IndexArrayLengthsMatch ==
  \A i \in 1..Len(call.points) :
    Len(call.index.arrays[i]) = call.points[i].npoints
TransformsMatchPoints ==
  /\ Len(call.transforms) >= 1
  /\ \A k \in 1..Len(call.transforms) : Len(call.transforms[k]) = Len(call.points)

\* C3: Sample.new with an explicit index raises ValueError and yields no
\* Sample when the index tuple is not as long as points, or when some index
\* array is not as long as its element's point count; when both lengths
\* agree and the transforms match points, a Sample is constructed whose
\* getindex(i) is the supplied index[i].
C3_CustomIndexLengths ==
  NewWithIndex =>
    /\ ~IndexTupleLengthMatches => (err = "ValueError" /\ ~IsSample)
    /\ (IndexTupleLengthMatches /\ ~IndexArrayLengthsMatch)
         => (err = "ValueError" /\ ~IsSample)
    /\ (IndexTupleLengthMatches /\ IndexArrayLengthsMatch /\ TransformsMatchPoints)
         => /\ err = "none"
            /\ IsSample
            /\ sample.kind = "_CustomIndex"
            /\ sample.nelems = Len(call.points)
            /\ \A i \in Elems : getindex(sample, i) = call.index.arrays[i + 1]

\* an index tuple as long as points, with an array of the wrong length,
\* was refused
C3_Witness ==
  /\ NewWithIndex
  /\ Len(call.points) >= 2
  /\ IndexTupleLengthMatches /\ ~IndexArrayLengthsMatch
  /\ TransformsMatchPoints
  /\ err = "ValueError"

\* C4: Sample.new, with or without an index, raises when a transform
\* sequence is not as long as points, and yields no Sample; every Sample
\* that exists has at least one view and nelems = len(transforms[k]) =
\* len(points) for every view k.
C4_TransformsLength ==
  /\ (call.op = "new" /\ ~TransformsMatchPoints) => (err # "none" /\ ~IsSample)
  /\ IsSample =>
       /\ Len(sample.transforms) >= 1
       /\ sample.nelems = Len(sample.points)
       /\ \A k \in 1..Len(sample.transforms) :
            Len(sample.transforms[k]) = sample.nelems

\* a custom-index construction whose index is right and whose second view
\* is too long was refused
C4_Witness ==
  /\ NewWithIndex
  /\ IndexTupleLengthMatches /\ IndexArrayLengthsMatch
  /\ Len(call.transforms) = 2
  /\ Len(call.transforms[1]) = Len(call.points)
  /\ Len(call.transforms[2]) # Len(call.points)
  /\ err = "AssertionError"

(***************************************************************************)
(* Properties of Sample.subset.  After a subset call, call.parent is the   *)
(* Sample it was called on and, when it returned, sample is the subset.    *)
(* An element of the parent is retained when its transform chain is one of *)
(* the subset's.                                                           *)
(***************************************************************************)
SubsetReturned == call.op = "subset" /\ err = "none"

Retained ==
  {e \in 0..call.parent.nelems - 1 :
     call.parent.transforms[1][e + 1] \in Range(sample.transforms[1])}

\* the place of a retained element of the parent among the subset's elements
PlaceOf(e) ==
  CHOOSE i \in Elems : sample.transforms[1][i + 1] = call.parent.transforms[1][e + 1]

TruePoints == {p \in DOMAIN call.mask : call.mask[p]}

\* C5 (as claimed): for every Sample and every mask of length npoints,
\* subset(mask) returns a Sample that retains exactly the elements with a
\* point p with mask[p] true; every p with mask[p] true is a point of a
\* retained element; the subset has at most nelems elements and at least as
\* many points as there are true points.
C5_SubsetKeepsTruePoints ==
  call.op = "subset" =>
    /\ err = "none"
    /\ Retained = {e \in 0..call.parent.nelems - 1 :
                     \E j \in 1..Len(getindex(call.parent, e)) :
                       call.mask[getindex(call.parent, e)[j]]}
    /\ \A p \in TruePoints :
         \E e \in Retained : p \in Range(getindex(call.parent, e))
    /\ sample.nelems <= call.parent.nelems
    /\ npoints(sample) >= Cardinality(TruePoints)

\* the surviving points: pairs of a retained element and a local point
Surviving ==
  {ej \in Retained \X (1..MaxPoints) : ej[2] <= Len(getindex(call.parent, ej[1]))}

\* C6 (as claimed): any two points that survive in the subset have, in the
\* subset's global index order, the relative order of their global indices
\* in the original Sample.
C6_SubsetPreservesOrder ==
  SubsetReturned =>
    \A a, b \in Surviving :
      getindex(call.parent, a[1])[a[2]] < getindex(call.parent, b[1])[b[2]]
        => getindex(sample, PlaceOf(a[1]))[a[2]] < getindex(sample, PlaceOf(b[1]))[b[2]]

(***************************************************************************)
(* Properties of _convert.                                                 *)
(***************************************************************************)
\* manual accumulation: the sum of the values of the entries at position c
ManualSum(data, c) ==
  SumSeq([i \in 1..Len(data.entries) |->
            IF data.entries[i].index = c THEN data.entries[i].value ELSE 0])

\* the value a pruned sparse tensor holds at position c
SparseValueAt(entries, c) ==
  IF \E i \in 1..Len(entries) : entries[i].index = c
  THEN entries[CHOOSE i \in 1..Len(entries) : entries[i].index = c].value
  ELSE 0

\* what a converted object of the right kind for its rank must hold: at
\* every position the sum of the raw entries there
ConvertedAs(data, res) ==
  /\ sparse_ndim(data) < 2 =>
       /\ res.kind = "array"
       /\ DOMAIN res.dense = Positions(data.shape)
       /\ \A c \in Positions(data.shape) : res.dense[c] = ManualSum(data, c)
  /\ sparse_ndim(data) = 2 =>
       /\ res.kind = "matrix"
       /\ \A c \in Positions(data.shape) :
            Matrix_export_dense(res)[c] = ManualSum(data, c)
  /\ sparse_ndim(data) > 2 =>
       /\ res.kind = "sparse"
       /\ \A i, k \in 1..Len(res.entries) :
            i # k => res.entries[i].index # res.entries[k].index
       /\ \A i \in 1..Len(res.entries) : res.entries[i].value # 0
       /\ \A c \in Positions(data.shape) :
            SparseValueAt(res.entries, c) = ManualSum(data, c)

\* C7: _convert returns a dense array for a raw result of rank < 2 (a
\* scalar for rank 0, a vector for rank 1), a matrix for rank 2 and a
\* deduplicated, pruned sparse tensor for rank > 2; in each, the value at a
\* position is the sum of the raw entries at that position.
C7_ConvertByRank ==
  call.op = "_convert" => ConvertedAs(call.data, result)

\* the spec's example: rank 1, the entries 2 and 5 at one index, 7 there
C7_Witness ==
  /\ call.op = "_convert"
  /\ sparse_ndim(call.data) = 1
  /\ Len(call.data.entries) = 2
  /\ call.data.entries[1].index = call.data.entries[2].index
  /\ {call.data.entries[1].value, call.data.entries[2].value} = {2, 5}
  /\ result.dense[call.data.entries[1].index] = 7

(***************************************************************************)
(* Properties of the evaluation pipeline.                                  *)
(***************************************************************************)
EvalOps == {"integrate", "eval", "eval_integrals"}
Evaluated == call.op \in EvalOps /\ err = "none"

\* the deferred integrals of the last call, in the order of its arguments
IntegralsOf(op, funcs) ==
  IF op = "integrate" THEN [j \in 1..Len(funcs) |-> Sample_integral(sample, funcs[j])]
  ELSE IF op = "eval" THEN [j \in 1..Len(funcs) |-> Sample__rmatmul__(sample, funcs[j])]
  ELSE funcs

\* the raw sparse results of the last call
RawResults == eval_integrals_sparse(IntegralsOf(call.op, call.funcs)).value

\* a dense array that holds, at every position, the sum of the raw entries
DenseOf(data, res) ==
  /\ res.kind = "array"
  /\ DOMAIN res.dense = Positions(data.shape)
  /\ \A c \in Positions(data.shape) : res.dense[c] = ManualSum(data, c)

\* C8 (as claimed): eval_integrals, Sample.integrate and Sample.eval each
\* convert raw result j by the rule of _convert (dense below rank 2, a
\* matrix at rank 2, a pruned sparse tensor above), result j for input j.
C8_AllConvertByRank ==
  Evaluated =>
    LET raw == RawResults IN
      /\ Len(result.values) = Len(call.funcs)
      /\ \A j \in 1..Len(call.funcs) : ConvertedAs(raw[j], result.values[j])

\* C8 (amended): eval_integrals and Sample.integrate convert raw result j by
\* the rule of _convert; Sample.eval makes raw result j a dense array
\* whatever its rank; each returns result j for input j.
C8_ConvertInOrder ==
  Evaluated =>
    LET raw == RawResults IN
      /\ Len(result.values) = Len(call.funcs)
      /\ \A j \in 1..Len(call.funcs) :
           IF call.op = "eval" THEN DenseOf(raw[j], result.values[j])
           ELSE ConvertedAs(raw[j], result.values[j])

\* Sample.eval returned a dense array of rank 3 after a vector
C8_Witness ==
  /\ Evaluated /\ call.op = "eval"
  /\ sample.nelems >= 2
  /\ Len(call.funcs) = 2
  /\ call.funcs[1].rank = 0 /\ call.funcs[2].rank = 2
  /\ result.values[2].kind = "array"
  /\ \E c \in DOMAIN result.values[2].dense : result.values[2].dense[c] # 0

\* the same call with integral j alone
Alone(j) ==
  IF call.op = "integrate" THEN Sample_integrate(sample, <<call.funcs[j]>>)
  ELSE IF call.op = "eval" THEN Sample_eval(sample, <<call.funcs[j]>>)
  ELSE eval_integrals(<<call.funcs[j]>>)

RawAlone(j) == eval_integrals_sparse(<<IntegralsOf(call.op, call.funcs)[j]>>)

\* C9: a joint evaluation of k integrals over one Sample returns k results,
\* and result j, raw (eval_integrals_sparse) and converted, is the result
\* of evaluating integral j alone.
C9_JointEqualsAlone ==
  Evaluated =>
    LET raw == RawResults IN
      /\ Len(result.values) = Len(call.funcs)
      /\ Len(raw) = Len(call.funcs)
      /\ \A j \in 1..Len(call.funcs) :
           LET alone == Alone(j) IN
             /\ alone.raised = "none"
             /\ Len(alone.value) = 1
             /\ result.values[j] = alone.value[1]
             /\ raw[j] = RawAlone(j).value[1]

\* eval_integrals returned the results of an integral and of an _AtSample
\* over a Sample of two elements, and they differ
C9_Witness ==
  /\ Evaluated /\ call.op = "eval_integrals"
  /\ sample.nelems >= 2
  /\ Len(call.funcs) = 2
  /\ call.funcs[1].kind = "_AtSample" /\ call.funcs[2].kind = "_Integral"
  /\ result.values[1] # result.values[2]

\* the exception that integral m raises on its own, in its lower or in its
\* execution; "none" when it evaluates
MemberError(m) ==
  LET low == as_evaluable_array(m) IN
    IF low.raised # "none" THEN low.raised ELSE Execute(<<low.value>>).raised

MemberErrors ==
  {MemberError(IntegralsOf(call.op, call.funcs)[j]) : j \in 1..Len(call.funcs)} \ {"none"}

\* C11: a call of eval_integrals, Sample.integrate or Sample.eval on a batch
\* either returns one result per member, and then no member raises on its
\* own, or raises the exception of one of its members, unchanged, and
\* returns nothing; the same holds of the raw results of
\* eval_integrals_sparse.
C11_BatchAllOrNothing ==
  call.op \in EvalOps =>
    LET raw == eval_integrals_sparse(IntegralsOf(call.op, call.funcs))
        errors == MemberErrors
    IN
      /\ errors # {} => (err \in errors /\ result = NoResult)
      /\ errors = {} =>
           /\ err = "none"
           /\ result.kind = "results"
           /\ Len(result.values) = Len(call.funcs)
      /\ raw.raised = err
      /\ raw.raised # "none" => raw.value = <<>>
      /\ raw.raised = "none" => Len(raw.value) = Len(call.funcs)

\* eval_integrals of an integral that evaluates on its own and an integral
\* of an _AtSample, whose lower raises ValueError: the call raised it
C11_Witness ==
  /\ call.op = "eval_integrals"
  /\ Len(call.funcs) = 2
  /\ MemberError(call.funcs[1]) = "none"
  /\ MemberError(call.funcs[2]) = "ValueError"
  /\ err = "ValueError"
  /\ result = NoResult

(***************************************************************************)
(* Properties of the deferred arrays.                                      *)
(***************************************************************************)
\* C12: the _Integral of f over s has the shape of f, and dtype float when
\* the dtype of f is int or bool and the dtype of f otherwise; the _AtSample
\* of f over s has shape (s.npoints, *f.shape) and the dtype of f, int and
\* bool included.
C12_ShapeAndDtype ==
  /\ call.op = "integral" =>
       /\ result.value.kind = "_Integral"
       /\ result.value.shape = call.func.shape
       /\ call.func.dtype \in {"int", "bool"} => result.value.dtype = "float"
       /\ call.func.dtype \notin {"int", "bool"} => result.value.dtype = call.func.dtype
  /\ call.op = "__rmatmul__" =>
       /\ result.value.kind = "_AtSample"
       /\ Len(result.value.shape) = Len(call.func.shape) + 1
       /\ Head(result.value.shape) = npoints(sample)
       /\ Tail(result.value.shape) = call.func.shape
       /\ result.value.dtype = call.func.dtype

\* the integral of the _AtSample of a bool function of shape (2, 1) over a
\* Sample of 2 points: shape (2, 2, 1), dtype float
C12_Witness ==
  /\ call.op = "integral"
  /\ call.func.kind = "_AtSample"
  /\ call.func.dtype = "bool"
  /\ call.func.func.shape = <<2, 1>>
  /\ npoints(sample) = 2
  /\ result.value.shape = <<2, 2, 1>>
  /\ result.value.dtype = "float"

(***************************************************************************)
(* Properties of lowering.                                                 *)
(***************************************************************************)
LoweredSampleBound == call.op = "lower" /\ call.expr.kind # "func"
ContextBound == Truthy(call.transform_chains) \/ Truthy(call.coordinates)
InnerOf(expr) == IF expr.kind = "_Integral" THEN expr.integrand ELSE expr.func

\* C10: the lower of an _Integral or _AtSample inside a context that binds
\* transform chains or coordinates raises ValueError without any lower of
\* the inner expression; outside one it lowers the inner expression with one
\* transform chain and one coordinates entry per view of the Sample, and
\* returns the loop over the elements unless the inner expression is itself
\* Sample-bound, whose lower then raises in the same way.
C10_NestedLowerFails ==
  LoweredSampleBound =>
    /\ ContextBound => (err = "ValueError" /\ result.calls = <<>>)
    /\ ~ContextBound =>
         /\ Len(result.calls) >= 1
         /\ result.calls[1].kind = InnerOf(call.expr).kind
         /\ result.calls[1].nchains = Len(call.expr.sample.transforms)
         /\ result.calls[1].ncoords = Len(call.expr.sample.transforms)
         /\ InnerOf(call.expr).kind = "func" =>
              /\ err = "none"
              /\ result.value.node = "LoopSum"
              /\ result.value.length = call.expr.sample.nelems
         /\ InnerOf(call.expr).kind # "func" =>
              (err = "ValueError" /\ Len(result.calls) = 1)

\* an _Integral of an _AtSample over a Sample of two views was lowered
\* outside any context: the inner lower got two chains and raised
C10_Witness ==
  /\ LoweredSampleBound /\ ~ContextBound
  /\ call.expr.kind = "_Integral"
  /\ InnerOf(call.expr).kind = "_AtSample"
  /\ Len(call.expr.sample.transforms) = 2
  /\ result.calls = <<[kind |-> "_AtSample", nchains |-> 2, ncoords |-> 2]>>
  /\ err = "ValueError"

(***************************************************************************)
(* Properties of sampled data.                                             *)
(***************************************************************************)
\* the functions whose evaluation over the Sample at hand is array
EvaluatedTo(array) ==
  {X \in EvalFuncs : LET d == Sample_eval(sample, <<X>>) IN
                       d.raised = "none" /\ d.value[1] = array}

SampledIntegrated ==
  call.op = "integrate" /\ Len(call.funcs) = 1 /\ call.funcs[1].kind = "matmat"

\* C13: for every Sample s and function X, s.eval(X) returns data, and the
\* integral of s.asfunction(data) over s is s.integrate(X).
C13_RoundTrip ==
  /\ call.op = "eval" => err = "none"
  /\ SampledIntegrated =>
       \A X \in EvaluatedTo(call.funcs[1].array) :
         /\ err = "none"
         /\ result.values = Sample_integrate(sample, <<X>>).value

\* C17: allcoords has npoints rows, row g holds the coordinate of a point
\* that getindex places at g, and the value is cached when it is returned.
C17_AllcoordsRows ==
  call.op = "allcoords" =>
    /\ err = "none"
    /\ Len(result.value) = npoints(sample)
    /\ \A g \in 0..npoints(sample) - 1 :
         \E e \in 0..sample.nelems - 1 :
           \E j \in 1..Len(getindex(sample, e)) :
             /\ getindex(sample, e)[j] = g
             /\ result.value[g + 1] = sample.points[e + 1].coords[j]
    /\ cache = [filled |-> TRUE, value |-> result.value]

(***************************************************************************)
(* Properties of the evaluable indices.                                    *)
(***************************************************************************)
\* C18: for every Sample and every element e, get_evaluable_indices with
\* the loop variable at e is getindex(e); for the default index it is the
\* range of points[e].npoints values from the sum of the sizes of the
\* elements before e, which is arange(offsets[e], offsets[e+1]).
C18_EvaluableIndicesAgree ==
  IsSample =>
    \A e \in 0..sample.nelems - 1 :
      /\ get_evaluable_indices(sample, e) = getindex(sample, e)
      /\ sample.kind = "_DefaultIndex" =>
           /\ get_evaluable_indices(sample, e)
                = EvaluableRange(sample.points[e + 1].npoints,
                                 SumSeq([i \in 1..e |-> sample.points[i].npoints]))
           /\ get_evaluable_indices(sample, e)
                = arange(offsets(sample)[e + 1], offsets(sample)[e + 2])

\* a default-index Sample of two elements, the second of two points: its
\* evaluable indices start at the size of the first
C18_Witness ==
  /\ IsSample /\ sample.kind = "_DefaultIndex"
  /\ sample.nelems = 2
  /\ sample.points[1].npoints = 1 /\ sample.points[2].npoints = 2
  /\ get_evaluable_indices(sample, 1) = <<1, 2>>

(***************************************************************************)
(* Properties of the evaluated values.                                     *)
(***************************************************************************)
\* component c of plain function f at point k of element e of the Sample
FuncAt(f, e, k, c) ==
  IF c = Component(f.rank, sample.transforms[1][e + 1])
  THEN sample.points[e + 1].coords[k]
  ELSE 0

\* the points, element and local number, that getindex places at g
PointsAt(g) ==
  {<<e, k>> \in (0..sample.nelems - 1) \X (1..npoints(sample)) :
     k <= Len(getindex(sample, e)) /\ getindex(sample, e)[k] = g}

\* the sum of component c of f over the points that getindex places at g
ScatteredSum(f, g, c) ==
  SumSeq([i \in 1..sample.nelems |->
            SumSeq([k \in 1..Len(getindex(sample, i - 1)) |->
                      IF getindex(sample, i - 1)[k] = g
                      THEN FuncAt(f, i - 1, k, c) ELSE 0])])

\* C14: the evaluated _AtSample of f has a leading axis of length npoints,
\* and its entry at global index g is the sum of f over the points that
\* getindex places at g; with the default index that is one point for every
\* g.
C14_AtSampleScatterAdds ==
  (call.op = "eval" /\ err = "none") =>
    /\ sample.kind = "_DefaultIndex" =>
         \A g \in 0..npoints(sample) - 1 : Cardinality(PointsAt(g)) = 1
    /\ \A n \in 1..Len(call.funcs) :
         LET f == call.funcs[n]
             res == result.values[n]
         IN /\ res.shape = <<npoints(sample)>> \o f.shape
            /\ \A g \in 0..npoints(sample) - 1 :
                 \A c \in Positions(f.shape) :
                   res.dense[<<g>> \o c] = ScatteredSum(f, g, c)

\* two elements of one point each, both at global index 0: the entry at 0
\* is the sum of the two values, the entry at 1 is zero
C14_Witness ==
  /\ call.op = "eval" /\ err = "none"
  /\ sample.kind = "_CustomIndex"
  /\ sample.index = <<<<0>>, <<0>>>>
  /\ call.funcs = <<Func(0)>>
  /\ result.values[1].dense[<<0>>] = FuncAt(Func(0), 0, 1, <<>>) + FuncAt(Func(0), 1, 1, <<>>)
  /\ result.values[1].dense[<<0>>] = 2
  /\ result.values[1].dense[<<1>>] = 0

\* the value of a converted result at position c
ValueAt(res, c) ==
  IF res.kind = "array" THEN res.dense[c]
  ELSE IF res.kind = "matrix" THEN Matrix_export_dense(res)[c]
  ELSE SparseValueAt(res.entries, c)

\* the sum over the elements of the weights contracted with component c of
\* f at the points of the element
WeightedSum(f, c) ==
  SumSeq([i \in 1..sample.nelems |->
            SumSeq([j \in 1..sample.points[i].npoints |->
                      sample.points[i].weights[j] * FuncAt(f, i - 1, j, c)])])

\* the lowered integral of a scalar function over s
LoweredIntegral(s) == as_evaluable_array(Sample_integral(s, Func(0))).value

\* C15: the evaluated _Integral of f is the sum, over every element once,
\* of the element's weights contracted with f at the element's points, and
\* so zero over a Sample without elements; the loop variable of the sum is
\* the index of the transform chain of every view and of the coordinates.
C15_IntegralSumsElements ==
  (call.op = "integrate" /\ err = "none") =>
    /\ \A n \in 1..Len(call.funcs) :
         \A c \in Positions(call.funcs[n].shape) :
           ValueAt(result.values[n], c) = WeightedSum(call.funcs[n], c)
    /\ \A s \in LowerSamples \cup {sample} :
         LET ev == LoweredIntegral(s) IN
           /\ ev.node = "LoopSum" /\ ev.length = s.nelems
           /\ Len(ev.body.chains) = Len(s.transforms)
           /\ Len(ev.body.coords) = Len(s.transforms)
           /\ \A k \in 1..Len(s.transforms) :
                /\ ev.body.chains[k].sequence = s.transforms[k]
                /\ ev.body.chains[k].index = ev.index
                /\ ev.body.coords[k].index = ev.index

\* a scalar function integrated over two elements of one point each:
\* 1 * 1 + 1 * 1
C15_Witness ==
  /\ call.op = "integrate" /\ err = "none"
  /\ sample.nelems = 2 /\ npoints(sample) = 2
  /\ call.funcs = <<Func(0)>>
  /\ result.values[1].dense[<<>>] = 2

(***************************************************************************)
(* Properties of the summing loop.                                         *)
(***************************************************************************)
LoopFinished == call.op = "LoopSum" /\ call.pending = {}

\* the output of the loop run in element order
InOrder(ev) == sparse_toarray(Execute(<<ev>>).value[1])

=============================================================================
